---------------------------- MODULE Spec2Model ----------------------------
(***************************************************************************)
(* Model of the one-wire-bus driver: the timing primitives (reset, read    *)
(* and write slots), send_command, the CRC-8 validator, the resumable ROM  *)
(* search (device_search) and the DeviceSearch iterator, run against a     *)
(* simulated bus of devices.                                               *)
(*                                                                         *)
(* A u64 is modelled as the set of its set bit positions (a subset of      *)
(* 0..63): TLC's integers are 32 bits wide.  A u8 is a number in 0..255.   *)
(***************************************************************************)
EXTENDS Integers, Sequences, FiniteSets, TLC

(***************************************************************************)
(* Bit arithmetic on u8 values.                                            *)
(***************************************************************************)
Pow2(n) == 2 ^ n

BitOf(b, j) == (b \div Pow2(j)) % 2

\* a ^ b on u8 values, bit by bit
Xor8(a, b) ==
      ((a + b) % 2)
    + (((a \div 2) + (b \div 2)) % 2) * 2
    + (((a \div 4) + (b \div 4)) % 2) * 4
    + (((a \div 8) + (b \div 8)) % 2) * 8
    + (((a \div 16) + (b \div 16)) % 2) * 16
    + (((a \div 32) + (b \div 32)) % 2) * 32
    + (((a \div 64) + (b \div 64)) % 2) * 64
    + (((a \div 128) + (b \div 128)) % 2) * 128

(***************************************************************************)
(* u64 values as sets of bit positions.                                    *)
(***************************************************************************)
AddressBits == 64

BitIndex == 0 .. (AddressBits - 1)

TestBit(x, i) == i \in x

SetBit(x, i) == x \cup {i}

ClearBit(x, i) == x \ {i}

\* u64::to_le_bytes: byte k (1-based here) holds bits 8(k-1) .. 8(k-1)+7
RECURSIVE ByteAt(_, _, _)
ByteAt(x, k, j) ==
    IF j = 8 THEN 0
    ELSE (IF (8 * (k - 1) + j) \in x THEN Pow2(j) ELSE 0) + ByteAt(x, k, j + 1)

to_le_bytes(x) == [k \in 1 .. 8 |-> ByteAt(x, k, 0)]

\* the u64 whose little-endian bytes are the given 8 bytes
from_le_bytes(bytes) ==
    {i \in BitIndex : BitOf(bytes[(i \div 8) + 1], i % 8) = 1}

\* numeric order of two u64 values: decided by the highest bit they differ in
MaxOf(S) == CHOOSE m \in S : \A n \in S : n <= m

U64Less(a, b) ==
    /\ a # b
    /\ MaxOf((a \ b) \cup (b \ a)) \in b

(***************************************************************************)
(* crc.rs                                                                  *)
(***************************************************************************)
CRC_POLY == 140

\* Crc8Byte without the shift of the input byte (byte >>= 1 left out)
RECURSIVE Crc8ByteNoShift(_, _, _)
Crc8ByteNoShift(crc, byte, n) ==
    IF n = 0 THEN crc
    ELSE LET x == (byte + crc) % 2
             shifted == crc \div 2
             next == IF x # 0 THEN Xor8(shifted, CRC_POLY) ELSE shifted
         IN  IF next >= 0 THEN Crc8ByteNoShift(next, byte, n - 1) ELSE 0

RECURSIVE Crc8Byte(_, _, _)
Crc8Byte(crc, byte, n) ==
    IF n = 0 THEN crc
    ELSE LET x == Xor8(byte, crc) % 2
             shifted == crc \div 2
             next == IF x # 0 THEN Xor8(shifted, CRC_POLY) ELSE shifted
             rest == byte \div 2
         IN  \* the guard evaluates both values before the next round
             IF next >= 0 /\ rest >= 0 THEN Crc8Byte(next, rest, n - 1) ELSE 0

RECURSIVE Crc8From(_, _, _)
Crc8From(crc, data, i) ==
    IF i > Len(data) THEN crc
    ELSE LET c == Crc8Byte(crc, data[i], 8)
         IN  IF c >= 0 THEN Crc8From(c, data, i + 1) ELSE 0

\* crc8 with the register starting at 0xFF
crc8InitOnes(data) == Crc8From(255, data, 1)

crc8(data) == Crc8From(0, data, 1)

check_crc8(data) == IF crc8(data) = 0 THEN "Ok" ELSE "CrcMismatch"


(***************************************************************************)
(* commands.rs is not among the sources; the opcodes are the standard      *)
(* values the specification lists.                                         *)
(***************************************************************************)
MATCH_ROM == 85

SKIP_ROM == 204

SEARCH_NORMAL == 240

SEARCH_ALARM == 236

(***************************************************************************)
(* The simulated bus.  A device is its 64-bit address.                     *)
(***************************************************************************)
\* a device address: seven payload bytes followed by their checksum
ValidAddress(payload) == from_le_bytes(payload \o <<crc8(payload)>>)

\* an address whose trailing checksum byte is wrong
CorruptAddress(payload) == from_le_bytes(payload \o <<Xor8(crc8(payload), 1)>>)

ValidDevices ==
    { ValidAddress(<<40, 1, 0, 0, 0, 0, 0>>),
      ValidAddress(<<40, 2, 0, 0, 0, 0, 0>>),
      ValidAddress(<<41, 0, 0, 0, 0, 0, 0>>) }

CorruptDevices == { CorruptAddress(<<16, 5, 0, 0, 0, 0, 0>>) }

Devices == ValidDevices \cup CorruptDevices

\* bounds of the exploration
MaxChanges == 1

MaxFail == 3

VARIABLES
    bus,        \* the devices connected to the line
    alarm,      \* the devices in an alarm condition
    dev,        \* what the devices have understood since the last reset pulse
    changes,    \* number of population changes made so far
    pin,        \* output state of the master's pin: "low" or "released"
    pc,         \* position inside the operation in progress, "idle" between operations
    call,       \* the operation in progress (or the last one) and its arguments
    local,      \* device_search's local variables
    ret,        \* what the last operation returned
    held,       \* the SearchState a direct caller keeps between passes
    iter,       \* the DeviceSearch iterator, when one exists
    slots,      \* the bit slots and resets completed by the operation, in order
    ev,         \* the pin calls and delays of the last step, in order
    scan,       \* history of the scan in progress
    fallible,   \* whether the pin's calls can fail (its error type is inhabited)
    crc         \* a use of the checksum functions on their own: input and results

vars == <<bus, alarm, dev, changes, pin, pc, call, local, ret, held, iter, slots, ev,
          scan, fallible, crc>>


(***************************************************************************)
(* The line capability and the delay provider.  The script of a primitive  *)
(* is the sequence of pin calls and delays it makes when no call fails.    *)
(***************************************************************************)
\* self.pin.set_low() through set_bus_low
SetLow == [op |-> "set_low", arg |-> 0, ok |-> TRUE]

\* self.pin.set_high() through release_bus
Release == [op |-> "set_high", arg |-> 0, ok |-> TRUE]

\* self.pin.is_high() through is_bus_high; high is the level of the line
IsHigh(high) == [op |-> "is_high", arg |-> IF high THEN 1 ELSE 0, ok |-> TRUE]

\* self.pin.is_low() through is_bus_low
IsLow(high) == [op |-> "is_low", arg |-> IF high THEN 0 ELSE 1, ok |-> TRUE]

\* delay.delay_us(us)
Delay(us) == [op |-> "delay_us", arg |-> us, ok |-> TRUE]

(***************************************************************************)
(* Timing primitives (lib.rs)                                              *)
(***************************************************************************)
READ_SLOT_DURATION_MICROS == 70

WAIT_POLLS == 125

\* riseAt: the round of the loop at which the line first reads high
\* (WAIT_POLLS: never).  Every round before it polls the line and delays.
wait_for_high(riseAt) ==
    LET rounds == IF riseAt < WAIT_POLLS THEN riseAt ELSE WAIT_POLLS
    IN  [k \in 1 .. 2 * rounds |-> IF k % 2 = 1 THEN IsHigh(FALSE) ELSE Delay(2)]
        \o (IF riseAt < WAIT_POLLS THEN <<IsHigh(TRUE)>> ELSE <<>>)

\* reset that drops the error of wait_for_high and sends its pulse anyway
resetIgnoringIdle(riseAt, present) ==
    wait_for_high(riseAt)
    \o <<SetLow, Delay(480), Release, Delay(70), IsLow(~present), Delay(410)>>

\* reset that samples the line before it releases it
resetSampleEarly(riseAt, present) ==
    wait_for_high(riseAt)
    \o (IF riseAt >= WAIT_POLLS THEN <<>>
        ELSE <<SetLow, Delay(480), IsLow(~present), Release, Delay(70), Delay(410)>>)

\* present: some device answers the reset pulse by pulling the line low
reset(riseAt, present) ==
    wait_for_high(riseAt)
    \o (IF riseAt >= WAIT_POLLS THEN <<>>
        ELSE <<SetLow, Delay(480), Release, Delay(70), IsLow(~present), Delay(410)>>)

\* high: the level the line has when it is sampled
read_bit(high) == <<SetLow, Delay(6), Release, Delay(9), IsHigh(high), Delay(55)>>

\* write_1_bit that does not release the line
write_1_bit_held == <<SetLow, Delay(6), Delay(64)>>

write_1_bit == <<SetLow, Delay(6), Release, Delay(64)>>

\* write_0_bit that holds the line low as briefly as write_1_bit
write_0_bit_short == <<SetLow, Delay(6), Release, Delay(10)>>

write_0_bit == <<SetLow, Delay(60), Release, Delay(10)>>

write_bit(value) == IF value THEN write_1_bit ELSE write_0_bit

(***************************************************************************)
(* A slot is one call of reset, read_bit or write_bit together with the    *)
(* value it returns (reset, read_bit) or sends (write_bit).  A step of an  *)
(* operation is a sequence of slots.                                       *)
(***************************************************************************)
\* reset returns the presence it sampled, or BusNotHigh
ResetSlot(riseAt, present) ==
    [kind |-> "reset", rise |-> riseAt,
     bit |-> IF riseAt < WAIT_POLLS /\ present THEN 1 ELSE 0]

\* read_bit returns the level it sampled
ReadSlot(high) == [kind |-> "read", rise |-> 0, bit |-> IF high THEN 1 ELSE 0]

WriteSlot(value) == [kind |-> "write", rise |-> 0, bit |-> IF value THEN 1 ELSE 0]

SlotErr(slot) ==
    IF slot.kind = "reset" /\ slot.rise >= WAIT_POLLS THEN "BusNotHigh" ELSE ""

ScriptOf(slot) ==
    IF slot.kind = "reset" THEN reset(slot.rise, slot.bit = 1)
    ELSE IF slot.kind = "read" THEN read_bit(slot.bit = 1)
    ELSE write_bit(slot.bit = 1)

RECURSIVE WriteByteFrom(_, _)
WriteByteFrom(value, n) ==
    IF n = 0 THEN <<>>
    ELSE <<WriteSlot(value % 2 = 1)>> \o WriteByteFrom(value \div 2, n - 1)

write_byte(value) == WriteByteFrom(value, 8)

(***************************************************************************)
(* Running the slots of a step.  A pin call that fails ends the operation  *)
(* on the spot with PinError (the ? after every pin call), and so does a   *)
(* reset that returns BusNotHigh.                                          *)
(***************************************************************************)
PinCall(e) == e.op # "delay_us"

NumCalls(script) == Cardinality({k \in 1 .. Len(script) : PinCall(script[k])})

\* the script up to its n-th pin call, which fails
\* the positions of the pin calls of a script
CallPositions(script) == {k \in 1 .. Len(script) : PinCall(script[k])}

\* the n-th of the positions
NthOf(P, n) == CHOOSE j \in P : Cardinality({k \in P : k <= j}) = n

\* CutTo that goes on with the calls and delays after the one that fails
CutToNowhere(script, j) == [script EXCEPT ![j].ok = FALSE]

CutTo(script, j) == [SubSeq(script, 1, j) EXCEPT ![j].ok = FALSE]

CutAt(script, n) == CutTo(script, NthOf(CallPositions(script), n))

\* fail = 0: no pin call fails; fail = n: the n-th pin call from slot i on
\* fails.  The result names the slot that does not complete (at), why (err)
\* and the failing pin call inside it (cut).
RECURSIVE StopFrom(_, _, _)
StopFrom(sl, i, fail) ==
    IF i > Len(sl) THEN [at |-> i, err |-> "", cut |-> 0]
    ELSE IF fail # 0 /\ fail <= NumCalls(ScriptOf(sl[i]))
    THEN [at |-> i, err |-> "PinError", cut |-> fail]
    ELSE IF SlotErr(sl[i]) # "" THEN [at |-> i, err |-> SlotErr(sl[i]), cut |-> 0]
    ELSE StopFrom(sl, i + 1, IF fail = 0 THEN 0 ELSE fail - NumCalls(ScriptOf(sl[i])))

RunTo(sl, s) ==
    [sl |-> sl, at |-> s.at, err |-> s.err, cut |-> s.cut,
     done |-> [k \in 1 .. s.at - 1 |-> [kind |-> sl[k].kind, bit |-> sl[k].bit]]]

Run(sl, fail) == RunTo(sl, StopFrom(sl, 1, fail))

NoRun == [sl |-> <<>>, at |-> 1, err |-> "", cut |-> 0, done |-> <<>>]

RECURSIVE ScriptsFrom(_, _, _)
ScriptsFrom(sl, i, n) ==
    IF i > n THEN <<>> ELSE ScriptOf(sl[i]) \o ScriptsFrom(sl, i + 1, n)

\* the pin calls and delays a run has made
EventsOf(r) ==
    ScriptsFrom(r.sl, 1, r.at - 1)
    \o (IF r.err = "PinError" THEN CutAt(ScriptOf(r.sl[r.at]), r.cut)
        ELSE IF r.err # "" THEN ScriptOf(r.sl[r.at])
        ELSE <<>>)

RECURSIVE CallsOf(_, _)
CallsOf(sl, i) ==
    IF i > Len(sl) THEN 0 ELSE NumCalls(ScriptOf(sl[i])) + CallsOf(sl, i + 1)

\* the output state of the pin after the events
PinAfter(p, events) ==
    LET S == {k \in 1 .. Len(events) :
                 events[k].op \in {"set_low", "set_high"} /\ events[k].ok}
    IN  IF S = {} THEN p
        ELSE IF events[MaxOf(S)].op = "set_low" THEN "low" ELSE "released"

(***************************************************************************)
(* The devices' side of the protocol.  After a reset pulse every device    *)
(* listens for a ROM command of eight bits; after a search command the     *)
(* responding devices answer each bit position with their bit, then its    *)
(* complement, and stay selected when the bit written next equals theirs.  *)
(***************************************************************************)
DevIdle == [mode |-> "idle", bits |-> <<>>, sel |-> {}, pos |-> 0, phase |-> 0]

\* the devices that answer a search
Responders(only_alarming) == IF only_alarming THEN bus \cap alarm ELSE bus

RECURSIVE ByteOfBits(_, _)
ByteOfBits(bits, k) ==
    IF k > Len(bits) THEN 0 ELSE bits[k] * Pow2(k - 1) + ByteOfBits(bits, k + 1)

DevCommand(d, bits, byte) ==
    IF byte = SEARCH_NORMAL
    THEN [d EXCEPT !.mode = "search", !.bits = bits, !.sel = Responders(FALSE)]
    ELSE IF byte = SEARCH_ALARM
    THEN [d EXCEPT !.mode = "search", !.bits = bits, !.sel = Responders(TRUE)]
    ELSE [d EXCEPT !.mode = "other", !.bits = bits]

\* what the devices make of one completed slot
DevSlot(d, slot) ==
    IF slot.kind = "reset"
        THEN [DevIdle EXCEPT !.mode = "command"]
    ELSE IF d.mode = "command" /\ slot.kind = "write"
        THEN IF Len(d.bits) = 7
             THEN DevCommand(d, Append(d.bits, slot.bit),
                             ByteOfBits(Append(d.bits, slot.bit), 1))
             ELSE [d EXCEPT !.bits = Append(d.bits, slot.bit)]
    ELSE IF d.mode = "search" /\ slot.kind = "read" /\ d.phase < 2
        THEN [d EXCEPT !.phase = d.phase + 1]
    ELSE IF d.mode = "search" /\ slot.kind = "write" /\ d.phase = 2
        THEN [d EXCEPT !.sel = {x \in d.sel : TestBit(x, d.pos) = (slot.bit = 1)},
                       !.pos = d.pos + 1,
                       !.phase = 0,
                       !.mode = IF d.pos + 1 = AddressBits THEN "done" ELSE "search"]
    ELSE IF d.mode = "search"
        THEN [d EXCEPT !.mode = "lost", !.sel = {}]
    ELSE d

RECURSIVE DevRun(_, _, _)
DevRun(d, done, i) ==
    IF i > Len(done) THEN d ELSE DevRun(DevSlot(d, done[i]), done, i + 1)

\* the level of the line when the master samples a read slot: a device sends
\* a 0 by pulling the line low
LineHigh(d) ==
    IF d.mode = "search" /\ d.phase = 0 THEN \A x \in d.sel : TestBit(x, d.pos)
    ELSE IF d.mode = "search" /\ d.phase = 1 THEN \A x \in d.sel : ~TestBit(x, d.pos)
    ELSE TRUE

\* what the devices put on the line while the master reads outside a search:
\* a device that has received a function command answers with data of its
\* own; otherwise the line stays high
LineLevels(d) == IF d.mode = "other" THEN BOOLEAN ELSE {TRUE}

LineBytes(d) == IF d.mode = "other" THEN {0, 1, 165, 255} ELSE {255}

LineBuffers(d) ==
    IF d.mode = "other" THEN {<<>>, <<1, 128>>, <<165, 255>>} ELSE {<<>>, <<255, 255>>}

(***************************************************************************)
(* Values                                                                  *)
(***************************************************************************)
\* Option<SearchState>: None
NoState == [some |-> FALSE, address |-> {}, discrepancies |-> {},
            last_discrepancy_index |-> 0]

SomeState(a, d, l) == [some |-> TRUE, address |-> a, discrepancies |-> d,
                       last_discrepancy_index |-> l]

NoLocal == [last_discrepancy_index |-> 0, address |-> {}, discrepancies |-> {},
            bit_index |-> 0]

\* Option<&Address>: None
NoAddress == [some |-> FALSE, address |-> {}]

SomeAddress(a) == [some |-> TRUE, address |-> a]

NoCall == [op |-> "none", state |-> NoState, only_alarming |-> FALSE, prevPop |-> {},
           pop |-> {}, command |-> 0, address |-> NoAddress, bytes |-> <<>>]

\* a call of device_search, directly (op = "device_search") or by next
SearchCall(op, st, only_alarming, prevPop) ==
    [NoCall EXCEPT !.op = op, !.state = st, !.only_alarming = only_alarming,
                   !.prevPop = prevPop, !.pop = Responders(only_alarming)]

NoIter == [some |-> FALSE, state |-> NoState, finished |-> FALSE,
           only_alarming |-> FALSE]

NoRet == [op |-> "none", kind |-> "none", address |-> {}, state |-> NoState,
          value |-> 0, bytes |-> <<>>]

NoScan == [active |-> FALSE, only_alarming |-> FALSE, yielded |-> <<>>,
           stable |-> TRUE, failed |-> FALSE, prevPop |-> {}]

\* the command bytes and the addresses send_command is called with
Commands == {68}

\* the bytes write_byte is called with, the buffers read_bytes and write_bytes
\* are called with, and the addresses match_address is called with
Bytes == {0, 255, 68}

Buffers == {<<>>, <<1, 128>>}

MatchAddresses == {ValidAddress(<<40, 1, 0, 0, 0, 0, 0>>)}

Addresses == {NoAddress, SomeAddress(ValidAddress(<<40, 1, 0, 0, 0, 0, 0>>))}

\* no use of the checksum functions on their own
NoCrc == [data |-> <<>>, sealed |-> FALSE, value |-> -1, check |-> ""]

RisePolls == {0, 1, WAIT_POLLS - 1, WAIT_POLLS}

\* the rise times send_command is run with
CommandRisePolls == {0, WAIT_POLLS}

\* the pin call of a step that fails: none (0), one of the first MaxFail or one
\* of the last MaxFail of the n calls the step can make
FailPoints(n) ==
    IF fallible THEN {k \in 0 .. n : k <= MaxFail \/ k > n - MaxFail} ELSE {0}


(***************************************************************************)
(* Initial state: OneWire::new has released the line, nothing has run.     *)
(***************************************************************************)
AlarmDevices == {ValidAddress(<<40, 1, 0, 0, 0, 0, 0>>),
                 ValidAddress(<<41, 0, 0, 0, 0, 0, 0>>)}

\* B: the populations the bus can start with
InitOn(B, f) ==
    /\ bus \in B
    /\ alarm = AlarmDevices
    /\ dev = DevIdle
    /\ changes = 0
    /\ pin = "released"
    /\ pc = "idle"
    /\ call = NoCall
    /\ local = NoLocal
    /\ ret = NoRet
    /\ held = NoState
    /\ iter = NoIter
    /\ slots = <<>>
    /\ ev = <<>>
    /\ scan = NoScan
    /\ fallible = f
    /\ crc = NoCrc

InitWith(f) == InitOn(SUBSET Devices, f)

Init == InitWith(FALSE)

Errors == {"BusNotHigh", "PinError", "UnexpectedResponse", "CrcMismatch"}

\* device_search returns to its caller: a direct caller keeps the returned
\* state; DeviceSearch::next matches on the result
Deliver(c, kind, address, state, h, sc) ==
    /\ pc' = "idle"
    /\ local' = NoLocal
    /\ ret' = [NoRet EXCEPT !.op = c.op, !.kind = kind, !.address = address,
                             !.state = state]
    /\ IF c.op = "next"
       THEN /\ iter' = IF kind = "Some"
                       THEN [iter EXCEPT !.state = state]
                       ELSE [iter EXCEPT !.state = NoState, !.finished = TRUE]
            /\ held' = h
       ELSE /\ held' = IF kind = "Some" THEN state ELSE h
            /\ iter' = iter
    /\ scan' = [sc EXCEPT
                  !.yielded = IF kind = "Some" THEN Append(@, address) ELSE @,
                  !.failed = @ \/ kind \in Errors,
                  !.prevPop = IF kind = "Some" THEN Responders(c.only_alarming) ELSE @]

\* Enter without the test of the discrepancy mask
EnterNoCheck(c, h, sc) ==
    /\ call' = c
    /\ slots' = <<>>
    /\ ev' = <<>>
    /\ pc' = "reset"
    /\ ret' = NoRet
    /\ held' = h
    /\ scan' = sc
    /\ UNCHANGED <<bus, alarm, dev, changes, pin, local, iter, fallible, crc>>

\* the entry of device_search: an exhausted state returns at once
Enter(c, h, sc) ==
    /\ call' = c
    /\ slots' = <<>>
    /\ ev' = <<>>
    /\ UNCHANGED <<bus, alarm, dev, changes, pin, fallible, crc>>
    /\ IF c.state.some /\ c.state.discrepancies = {}
       THEN Deliver(c, "None", {}, NoState, h, sc)
       ELSE /\ pc' = "reset"
            /\ ret' = NoRet
            /\ held' = h
            /\ scan' = sc
            /\ UNCHANGED <<local, iter>>

\* a direct call of device_search, with no state (a new scan) or with the
\* state the previous pass returned
DeviceSearchCall(resume, only_alarming) ==
    /\ pc = "idle"
    /\ ~iter.some
    /\ scan.active = resume
    /\ IF resume
       THEN /\ held.some
            /\ only_alarming = scan.only_alarming
            /\ Enter(SearchCall("device_search", held, only_alarming, scan.prevPop),
                     held, scan)
       ELSE Enter(SearchCall("device_search", NoState, only_alarming, {}),
                  NoState,
                  [NoScan EXCEPT !.active = TRUE, !.only_alarming = only_alarming])

\* OneWire::devices
devices(only_alarming) ==
    /\ pc = "idle"
    /\ ~scan.active
    /\ iter' = [some |-> TRUE, state |-> NoState, finished |-> FALSE,
                only_alarming |-> only_alarming]
    /\ held' = NoState
    /\ scan' = [NoScan EXCEPT !.active = TRUE, !.only_alarming = only_alarming]
    /\ call' = [NoCall EXCEPT !.op = "devices", !.only_alarming = only_alarming]
    /\ ret' = NoRet
    /\ slots' = <<>>
    /\ ev' = <<>>
    /\ UNCHANGED <<bus, alarm, dev, changes, pin, pc, local, fallible, crc>>

\* the caller ends the scan: the iterator goes out of scope, or the state a
\* direct caller kept is discarded
Drop ==
    /\ pc = "idle"
    /\ scan.active
    /\ iter' = NoIter
    /\ held' = NoState
    /\ scan' = NoScan
    /\ call' = [NoCall EXCEPT !.op = "drop"]
    /\ ret' = NoRet
    /\ slots' = <<>>
    /\ ev' = <<>>
    /\ local' = NoLocal
    /\ UNCHANGED <<bus, alarm, dev, changes, pin, pc, fallible, crc>>

\* IterNext without the test of finished
IterNextRetry ==
    /\ pc = "idle"
    /\ iter.some
    /\ Enter(SearchCall("next", iter.state, iter.only_alarming, scan.prevPop),
             held, scan)

\* DeviceSearch::next
IterNext ==
    /\ pc = "idle"
    /\ iter.some
    /\ IF iter.finished
       THEN /\ call' = SearchCall("next", NoState, iter.only_alarming, {})
            /\ ret' = [NoRet EXCEPT !.op = "next", !.kind = "None"]
            /\ slots' = <<>>
            /\ ev' = <<>>
            /\ UNCHANGED <<bus, alarm, dev, changes, pin, pc, local, held, iter, scan,
                           fallible, crc>>
       ELSE Enter(SearchCall("next", iter.state, iter.only_alarming, scan.prevPop),
                  held, scan)


(***************************************************************************)
(* The steps of a device_search pass.  A loop of the code is one step; m   *)
(* is the state a loop works on: the devices, the locals, the slots done,  *)
(* the run of its last round, the pin calls and delays of all its rounds,  *)
(* the error that ended it, and the pin call that is still to fail.        *)
(***************************************************************************)
Machine(fail) ==
    [dev |-> dev, local |-> local, done |-> <<>>, last |-> NoRun, events |-> <<>>,
     err |-> "", fail |-> fail]

\* m after the run r of the slots sl
After(m, sl, r) ==
    [dev |-> DevRun(m.dev, r.done, 1),
     local |-> m.local,
     done |-> m.done \o r.done,
     last |-> r,
     events |-> m.events \o EventsOf(r),
     err |-> r.err,
     fail |-> IF m.fail = 0 THEN 0 ELSE m.fail - CallsOf(sl, 1)]

\* the slots of one round, run from m
Round(m, sl) == After(m, sl, Run(sl, m.fail))

\* the two read slots of a bit position: the levels the devices put on the
\* line in the first and in the second
ReadPair(d) == <<LineHigh(d), LineHigh(DevSlot(d, ReadSlot(LineHigh(d))))>>

ReadSlots(highs) == <<ReadSlot(highs[1]), ReadSlot(highs[2])>>

\* a round that returns early with the error, unless a pin call failed first
Fails(m, error) == IF m.err # "" THEN m ELSE [m EXCEPT !.err = error]

\* ReplayUpdate that does not track the discrepancies it passes
ReplayUpdateNoIndex(st, m, bit_index) ==
    IF m.err # "" THEN m
    ELSE [m EXCEPT !.local.bit_index = bit_index + 1]

\* one round of the loop that follows the previous path up to the last
\* discrepancy
ReplayUpdate(st, m, bit_index) ==
    IF m.err # "" THEN m
    ELSE [m EXCEPT !.local.last_discrepancy_index =
                       IF TestBit(st.discrepancies, bit_index) THEN bit_index ELSE @,
                   !.local.bit_index = bit_index + 1]

\* ReplayRound that fails when a recorded discrepancy no longer shows
ReplayRoundStrict(st, m) ==
    IF TestBit(st.discrepancies, m.local.bit_index)
       /\ (ReadPair(m.dev)[1] \/ ReadPair(m.dev)[2])
    THEN Fails(Round(m, ReadSlots(ReadPair(m.dev))), "UnexpectedResponse")
    ELSE ReplayUpdate(st,
                      Round(m, ReadSlots(ReadPair(m.dev))
                               \o <<WriteSlot(TestBit(st.address, m.local.bit_index))>>),
                      m.local.bit_index)

ReplayRound(st, m) ==
    ReplayUpdate(st,
                 Round(m, ReadSlots(ReadPair(m.dev))
                          \o <<WriteSlot(TestBit(st.address, m.local.bit_index))>>),
                 m.local.bit_index)

RECURSIVE ReplayLoop(_, _)
ReplayLoop(st, m) ==
    IF m.err # "" \/ m.local.bit_index >= st.last_discrepancy_index THEN m
    ELSE ReplayLoop(st, ReplayRound(st, m))

\* the discrepancy bit: false was chosen last time, true is chosen now
SwitchUpdate(st, m, index) ==
    IF m.err # "" THEN m
    ELSE [m EXCEPT !.local.address = SetBit(st.address, index),
                   !.local.discrepancies = ClearBit(st.discrepancies, index),
                   !.local.bit_index = index + 1]

\* SwitchMatch without the test of the two responses
SwitchMatchNoCheck(st, m, highs) ==
    SwitchUpdate(st, Round(m, ReadSlots(highs) \o <<WriteSlot(TRUE)>>),
                 st.last_discrepancy_index)

SwitchMatch(st, m, highs) ==
    LET false_bit == ~highs[1]
        true_bit == ~highs[2]
    IN  IF ~(false_bit /\ true_bit)
        THEN Fails(Round(m, ReadSlots(highs)), "UnexpectedResponse")
        ELSE SwitchUpdate(st, Round(m, ReadSlots(highs) \o <<WriteSlot(TRUE)>>),
                          st.last_discrepancy_index)

SwitchRound(st, m) == SwitchMatch(st, m, ReadPair(m.dev))

\* DiscoveryUpdate that records no discrepancy
DiscoveryUpdateNoFork(m, bit_index, discrepancy, chosen_bit) ==
    IF m.err # "" THEN m
    ELSE [m EXCEPT
            !.local.address = IF chosen_bit THEN SetBit(@, bit_index)
                                            ELSE ClearBit(@, bit_index),
            !.local.bit_index = bit_index + 1]

\* one round of the loop over the remaining bit positions
DiscoveryUpdate(m, bit_index, discrepancy, chosen_bit) ==
    IF m.err # "" THEN m
    ELSE [m EXCEPT
            !.local.discrepancies = IF discrepancy THEN SetBit(@, bit_index) ELSE @,
            !.local.last_discrepancy_index = IF discrepancy THEN bit_index ELSE @,
            !.local.address = IF chosen_bit THEN SetBit(@, bit_index)
                                            ELSE ClearBit(@, bit_index),
            !.local.bit_index = bit_index + 1]

\* DiscoveryMatch that chooses the higher value at a discrepancy
DiscoveryMatchHigherFirst(m, highs) ==
    LET false_bit == ~highs[1]
        true_bit == ~highs[2]
    IN  IF ~false_bit /\ ~true_bit
        THEN Fails(Round(m, ReadSlots(highs)), "UnexpectedResponse")
        ELSE DiscoveryUpdate(
                 Round(m, ReadSlots(highs) \o <<WriteSlot(true_bit)>>),
                 m.local.bit_index,
                 false_bit /\ true_bit,
                 true_bit)

DiscoveryMatch(m, highs) ==
    LET false_bit == ~highs[1]
        true_bit == ~highs[2]
    IN  IF ~false_bit /\ ~true_bit
        THEN Fails(Round(m, ReadSlots(highs)), "UnexpectedResponse")
        ELSE DiscoveryUpdate(
                 Round(m, ReadSlots(highs) \o <<WriteSlot(~false_bit /\ true_bit)>>),
                 m.local.bit_index,
                 false_bit /\ true_bit,
                 ~false_bit /\ true_bit)

DiscoveryRound(m) == DiscoveryMatch(m, ReadPair(m.dev))

RECURSIVE DiscoveryLoop(_)
DiscoveryLoop(m) ==
    IF m.err # "" \/ m.local.bit_index >= AddressBits THEN m
    ELSE DiscoveryLoop(DiscoveryRound(m))

\* the output state of the pin before the last round of a step: every slot
\* that has completed has ended with a release
PinBefore(m) == IF m.done # <<>> THEN "released" ELSE pin

\* what a step leaves on the line, in the devices and in the logs
OnBus(m) ==
    /\ dev' = m.dev
    /\ slots' = slots \o m.done
    /\ ev' = m.events
    /\ pin' = PinAfter(PinBefore(m), ev')

\* a step ends: with its error, which device_search returns, or at the next
\* step
Continue(m, to) ==
    /\ OnBus(m)
    /\ IF m.err # ""
       THEN Deliver(call, m.err, {}, NoState, held, scan)
       ELSE /\ pc' = to
            /\ local' = m.local
            /\ UNCHANGED <<ret, held, iter, scan>>
    /\ UNCHANGED <<bus, alarm, changes, call, fallible, crc>>

\* ResetDone that sends the opcode whatever the reset has sampled
ResetDoneAnyway(m) ==
    /\ OnBus(m)
    /\ IF m.err # ""
       THEN Deliver(call, m.err, {}, NoState, held, scan)
       ELSE /\ pc' = "opcode"
            /\ UNCHANGED <<local, ret, held, iter, scan>>
    /\ UNCHANGED <<bus, alarm, changes, call, fallible, crc>>

\* if !self.reset(delay)? { return Ok(None); }
ResetDone(m) ==
    /\ OnBus(m)
    /\ IF m.err # ""
       THEN Deliver(call, m.err, {}, NoState, held, scan)
       ELSE IF m.done[1].bit = 0
       THEN Deliver(call, "None", {}, NoState, held, scan)
       ELSE /\ pc' = "opcode"
            /\ UNCHANGED <<local, ret, held, iter, scan>>
    /\ UNCHANGED <<bus, alarm, changes, call, fallible, crc>>

SearchReset(riseAt, fail) ==
    /\ pc = "reset"
    /\ ResetDone(Round(Machine(fail), <<ResetSlot(riseAt, bus # {})>>))

\* SearchOpcode that sends SEARCH_NORMAL whatever only_alarming is
SearchOpcodeNormal(fail) ==
    /\ pc = "opcode"
    /\ Continue(Round(Machine(fail), write_byte(SEARCH_NORMAL)),
                IF call.state.some THEN "replay" ELSE "discovery")

\* the search opcode; the locals have their initial values
SearchOpcode(fail) ==
    /\ pc = "opcode"
    /\ Continue(Round(Machine(fail),
                      write_byte(IF call.only_alarming THEN SEARCH_ALARM
                                                       ELSE SEARCH_NORMAL)),
                IF call.state.some THEN "replay" ELSE "discovery")

\* the loop that follows the previous path up to the last discrepancy
SearchReplay(fail) ==
    /\ pc = "replay"
    /\ Continue(ReplayLoop(call.state, Machine(fail)), "switch")

\* the block that takes the other branch at the last discrepancy
SearchSwitch(fail) ==
    /\ pc = "switch"
    /\ Continue(SwitchRound(call.state, Machine(fail)), "discovery")

\* the discovery loop
SearchDiscover(fail) ==
    /\ pc = "discovery"
    /\ Continue(DiscoveryLoop(Machine(fail)), "crc")

\* SearchFinish without the checksum test
SearchFinishNoCheck ==
    /\ pc = "crc"
    /\ Deliver(call, "Some", local.address,
               SomeState(local.address, local.discrepancies,
                         local.last_discrepancy_index), held, scan)
    /\ UNCHANGED <<bus, alarm, dev, changes, pin, call, slots, ev, fallible, crc>>

\* SearchFinish that, resuming, returns the address of the state it was given
SearchFinishPrevious ==
    /\ pc = "crc"
    /\ IF check_crc8(to_le_bytes(local.address)) = "Ok"
       THEN Deliver(call, "Some",
                    IF call.state.some THEN call.state.address ELSE local.address,
                    SomeState(local.address, local.discrepancies,
                              local.last_discrepancy_index), held, scan)
       ELSE Deliver(call, "CrcMismatch", {}, NoState, held, scan)
    /\ UNCHANGED <<bus, alarm, dev, changes, pin, call, slots, ev, fallible, crc>>

\* crc::check_crc8(&address.to_le_bytes())?, then the result
SearchFinish ==
    /\ pc = "crc"
    /\ IF check_crc8(to_le_bytes(local.address)) = "Ok"
       THEN Deliver(call, "Some", local.address,
                    SomeState(local.address, local.discrepancies,
                              local.last_discrepancy_index), held, scan)
       ELSE Deliver(call, "CrcMismatch", {}, NoState, held, scan)
    /\ UNCHANGED <<bus, alarm, dev, changes, pin, call, slots, ev, fallible, crc>>

(***************************************************************************)
(* The other operations, called between scans.                             *)
(***************************************************************************)
\* an operation that is one step: what it leaves and what it returns
WholeWith(c, m, value, bytes) ==
    /\ dev' = m.dev
    /\ slots' = m.done
    /\ ev' = m.events
    /\ pin' = PinAfter(PinBefore(m), ev')
    /\ call' = c
    /\ ret' = [NoRet EXCEPT !.op = c.op,
                            !.kind = IF m.err # "" THEN m.err ELSE "Ok",
                            !.value = IF m.err # "" THEN 0 ELSE value,
                            !.bytes = IF m.err # "" THEN <<>> ELSE bytes]
    /\ UNCHANGED <<bus, alarm, changes, pc, local, held, iter, scan, fallible, crc>>

Whole(c, m, value) == WholeWith(c, m, value, <<>>)

Fresh(fail) == [Machine(fail) EXCEPT !.local = NoLocal]

\* OneWire::reset; the value returned is the presence it sampled
ResetResult(c, m) == Whole(c, m, IF m.err = "" THEN m.done[1].bit ELSE 0)

ResetCall(riseAt, fail) ==
    /\ pc = "idle"
    /\ ~scan.active
    /\ ResetResult([NoCall EXCEPT !.op = "reset"],
                   Round(Fresh(fail), <<ResetSlot(riseAt, bus # {})>>))

\* self.write_byte(value, delay)?: skipped when an earlier call has returned
\* its error
WriteByteRound(m, value) == IF m.err # "" THEN m ELSE Round(m, write_byte(value))

RECURSIVE write_bytes(_, _, _)
write_bytes(m, bytes, i) ==
    IF i > Len(bytes) THEN m
    ELSE write_bytes(WriteByteRound(m, bytes[i]), bytes, i + 1)

match_address(m, address) ==
    write_bytes(WriteByteRound(m, MATCH_ROM), to_le_bytes(address), 1)

skip_address(m) == WriteByteRound(m, SKIP_ROM)

\* send_command that returns after a reset no device has answered
send_command_if_present(m, command, address) ==
    IF m.err = "" /\ m.done[1].bit = 0 THEN m
    ELSE WriteByteRound(IF address.some THEN match_address(m, address.address)
                                        ELSE skip_address(m),
                        command)

\* OneWire::send_command; m is the machine after self.reset(delay)?, whose
\* value is dropped
send_command(m, command, address) ==
    WriteByteRound(IF address.some THEN match_address(m, address.address)
                                   ELSE skip_address(m),
                   command)

SendCommand(command, address, riseAt, fail) ==
    /\ pc = "idle"
    /\ ~scan.active
    /\ Whole([NoCall EXCEPT !.op = "send_command", !.command = command,
                            !.address = address],
             send_command(Round(Fresh(fail), <<ResetSlot(riseAt, bus # {})>>),
                          command, address),
             0)

\* a caller of reset or send_command: no scan is in progress, and it has
\* called nothing since
Between == pc = "idle" /\ ~scan.active /\ call.op \in {"none", "drop"}

\* a caller of a bit or byte operation: it has called nothing yet, or a reset
\* or send_command that has succeeded
Addressed ==
    /\ pc = "idle"
    /\ ~scan.active
    /\ \/ call.op = "none"
       \/ call.op \in {"reset", "send_command"} /\ ret.kind = "Ok"

\* OneWire::read_bit; the value returned is the level it sampled
ReadBitResult(c, m) == Whole(c, m, IF m.err = "" THEN m.done[1].bit ELSE 0)

ReadBitCall(high, fail) ==
    /\ Addressed
    /\ ReadBitResult([NoCall EXCEPT !.op = "read_bit"],
                     Round(Fresh(fail), <<ReadSlot(high)>>))

\* OneWire::write_bit
WriteBitCall(value, fail) ==
    /\ Addressed
    /\ Whole([NoCall EXCEPT !.op = "write_bit", !.command = IF value THEN 1 ELSE 0],
             Round(Fresh(fail), <<WriteSlot(value)>>), 0)

\* OneWire::read_byte: n rounds of output >>= 1; if self.read_bit(delay)?
\* { output |= 0x80 }.  sent is the byte the devices put on the line, r the
\* machine after the read_bit of the round.
RECURSIVE read_byte(_, _, _, _)
ReadByteUpdate(r, sent, output, n) ==
    read_byte(r, sent,
              IF r.err = "" /\ r.done[Len(r.done)].bit = 1 THEN output + 128 ELSE output,
              n - 1)

read_byte(m, sent, output, n) ==
    IF m.err # "" \/ n = 0 THEN [m |-> m, output |-> output]
    ELSE ReadByteUpdate(Round(m, <<ReadSlot(BitOf(sent, 8 - n) = 1)>>),
                        sent, output \div 2, n)

ReadByteResult(c, r) == Whole(c, r.m, r.output)

ReadByteCall(sent, fail) ==
    /\ Addressed
    /\ ReadByteResult([NoCall EXCEPT !.op = "read_byte"],
                      read_byte(Fresh(fail), sent, 0, 8))

\* OneWire::read_bytes: output[i] = self.read_byte(delay)?
RECURSIVE read_bytes(_, _, _, _)
ReadBytesUpdate(r, sent, output, i) ==
    read_bytes(r.m, sent,
               IF r.m.err = "" THEN [output EXCEPT ![i] = r.output] ELSE output,
               i + 1)

read_bytes(m, sent, output, i) ==
    IF m.err # "" \/ i > Len(output) THEN [m |-> m, output |-> output]
    ELSE ReadBytesUpdate(read_byte(m, sent[i], 0, 8), sent, output, i)

ReadBytesResult(c, r) == WholeWith(c, r.m, 0, r.output)

ReadBytesCall(sent, fail) ==
    /\ Addressed
    /\ ReadBytesResult([NoCall EXCEPT !.op = "read_bytes",
                                      !.bytes = [i \in 1 .. Len(sent) |-> 0]],
                       read_bytes(Fresh(fail), sent, [i \in 1 .. Len(sent) |-> 0], 1))

\* OneWire::write_byte
WriteByteCall(value, fail) ==
    /\ Addressed
    /\ Whole([NoCall EXCEPT !.op = "write_byte", !.command = value],
             WriteByteRound(Fresh(fail), value), 0)

\* OneWire::write_bytes
WriteBytesCall(bytes, fail) ==
    /\ Addressed
    /\ Whole([NoCall EXCEPT !.op = "write_bytes", !.bytes = bytes],
             write_bytes(Fresh(fail), bytes, 1), 0)

\* OneWire::match_address
MatchAddressCall(address, fail) ==
    /\ Addressed
    /\ Whole([NoCall EXCEPT !.op = "match_address", !.address = SomeAddress(address)],
             match_address(Fresh(fail), address), 0)

\* OneWire::skip_address
SkipAddressCall(fail) ==
    /\ Addressed
    /\ Whole([NoCall EXCEPT !.op = "skip_address"], skip_address(Fresh(fail)), 0)

(***************************************************************************)
(* The population changes between the passes of a scan.  (A change before  *)
(* a scan is a different initial population.)                              *)
(***************************************************************************)
ChangeBus(d) ==
    /\ pc = "idle"
    /\ changes < MaxChanges
    /\ held.some \/ iter.state.some
    /\ changes' = changes + 1
    /\ bus' = IF d \in bus THEN bus \ {d} ELSE bus \cup {d}
    /\ scan' = [scan EXCEPT !.stable = FALSE]
    /\ UNCHANGED <<alarm, dev, pin, pc, call, local, ret, held, iter, slots, ev,
                   fallible, crc>>

\* every device leaves the bus at once: the line to the devices is cut
Disconnect ==
    /\ pc = "idle"
    /\ changes < MaxChanges
    /\ held.some \/ iter.state.some
    /\ Cardinality(bus) > 1
    /\ changes' = changes + 1
    /\ bus' = {}
    /\ scan' = [scan EXCEPT !.stable = FALSE]
    /\ UNCHANGED <<alarm, dev, pin, pc, call, local, ret, held, iter, slots, ev,
                   fallible, crc>>

(***************************************************************************)
(* The checksum functions on their own (crc.rs): a caller builds a block   *)
(* of bytes, computes its checksum, appends the checksum to the block and  *)
(* checks blocks.                                                          *)
(***************************************************************************)
MaxCrcLen == 3

\* the bytes a block is extended with
CrcBytes == {0, 1, 140, 255}

\* the blocks of the test of crc.rs
TestVectors == {<<99, 1, 75, 70, 127, 255, 13, 16>>,
                <<97, 1, 75, 70, 127, 255, 15, 16>>,
                <<95, 1, 75, 70, 127, 255, 1, 16>>}

CrcInit ==
    /\ bus = {}
    /\ alarm = AlarmDevices
    /\ dev = DevIdle
    /\ changes = 0
    /\ pin = "released"
    /\ pc = "idle"
    /\ call = NoCall
    /\ local = NoLocal
    /\ ret = NoRet
    /\ held = NoState
    /\ iter = NoIter
    /\ slots = <<>>
    /\ ev = <<>>
    /\ scan = NoScan
    /\ fallible = FALSE
    /\ crc \in {[NoCrc EXCEPT !.data = d] :
                   d \in {<<>>} \cup {<<b>> : b \in 0 .. 255} \cup TestVectors}

busVars == <<bus, alarm, dev, changes, pin, pc, call, local, ret, held, iter, slots,
             ev, scan, fallible>>

\* the caller puts one more byte at the end of the block
CrcExtend(b) ==
    /\ ~crc.sealed
    /\ Len(crc.data) < MaxCrcLen
    /\ crc' = [NoCrc EXCEPT !.data = Append(crc.data, b)]
    /\ UNCHANGED busVars

\* crc8(data) and check_crc8(data)
CrcCall ==
    /\ crc.value = -1
    /\ crc' = [crc EXCEPT !.value = crc8(crc.data), !.check = check_crc8(crc.data)]
    /\ UNCHANGED busVars

\* the caller puts the checksum of the block at its end
CrcSeal ==
    /\ ~crc.sealed
    /\ crc.value # -1
    /\ crc' = [NoCrc EXCEPT !.data = Append(crc.data, crc.value), !.sealed = TRUE]
    /\ UNCHANGED busVars

CrcNext ==
    \/ \E b \in CrcBytes : CrcExtend(b)
    \/ CrcCall
    \/ CrcSeal

SpecCrc == CrcInit /\ [][CrcNext]_vars

\* the pin calls a reset makes when no call fails
ResetCalls(riseAt) == IF riseAt < WAIT_POLLS THEN riseAt + 1 + 3 ELSE WAIT_POLLS

\* the pin calls of the slots of n bit positions of a search
SearchCalls(n) == (3 + 3 + 2) * n

\* the pin calls of the writes of n bytes
WriteCalls(n) == 8 * 2 * n

ReadCalls(n) == 8 * 3 * n

Next ==
    \/ \E resume \in BOOLEAN, only_alarming \in BOOLEAN :
           DeviceSearchCall(resume, only_alarming)
    \/ \E only_alarming \in BOOLEAN : devices(only_alarming)
    \/ IterNext
    \/ Drop
    \/ \E riseAt \in RisePolls : \E fail \in FailPoints(ResetCalls(riseAt)) :
           SearchReset(riseAt, fail)
    \/ \E fail \in FailPoints(WriteCalls(1)) : SearchOpcode(fail)
    \/ \E fail \in FailPoints(SearchCalls(call.state.last_discrepancy_index)) :
           SearchReplay(fail)
    \/ \E fail \in FailPoints(SearchCalls(1)) : SearchSwitch(fail)
    \/ \E fail \in FailPoints(SearchCalls(AddressBits - local.bit_index)) :
           SearchDiscover(fail)
    \/ SearchFinish
    \/ \E riseAt \in RisePolls : \E fail \in FailPoints(ResetCalls(riseAt)) :
           ResetCall(riseAt, fail)
    \/ \E command \in Commands, address \in Addresses, riseAt \in CommandRisePolls :
           \E fail \in FailPoints(ResetCalls(riseAt)
                                  + WriteCalls(IF address.some THEN 10 ELSE 2)) :
               SendCommand(command, address, riseAt, fail)
    \/ \E high \in LineLevels(dev) : \E fail \in FailPoints(3) :
           ReadBitCall(high, fail)
    \/ \E value \in BOOLEAN : \E fail \in FailPoints(2) : WriteBitCall(value, fail)
    \/ \E sent \in LineBytes(dev) : \E fail \in FailPoints(ReadCalls(1)) :
           ReadByteCall(sent, fail)
    \/ \E sent \in LineBuffers(dev) : \E fail \in FailPoints(ReadCalls(Len(sent))) :
           ReadBytesCall(sent, fail)
    \/ \E value \in Bytes : \E fail \in FailPoints(WriteCalls(1)) :
           WriteByteCall(value, fail)
    \/ \E bytes \in Buffers : \E fail \in FailPoints(WriteCalls(Len(bytes))) :
           WriteBytesCall(bytes, fail)
    \/ \E address \in MatchAddresses : \E fail \in FailPoints(WriteCalls(9)) :
           MatchAddressCall(address, fail)
    \/ \E fail \in FailPoints(WriteCalls(1)) : SkipAddressCall(fail)
    \/ \E d \in Devices : ChangeBus(d)
    \/ Disconnect

Spec == Init /\ [][Next]_vars

\* the same operations over a pin whose calls can fail
FaultBuses ==
    {{},
     {ValidAddress(<<40, 2, 0, 0, 0, 0, 0>>)},
     {ValidAddress(<<40, 1, 0, 0, 0, 0, 0>>), ValidAddress(<<40, 2, 0, 0, 0, 0, 0>>)},
     {CHOOSE d \in CorruptDevices : TRUE}}

InitFault ==
    /\ InitWith(TRUE)
    /\ bus \in FaultBuses

\* the rise times of the line the steps of SpecFault are run with
FaultRisePolls == {0, WAIT_POLLS}

\* the operations of Next with a population that does not change, each with
\* the pin call that fails chosen among FailPoints
NextFault ==
    \/ \E resume \in BOOLEAN, only_alarming \in BOOLEAN :
           DeviceSearchCall(resume, only_alarming)
    \/ \E only_alarming \in BOOLEAN : devices(only_alarming)
    \/ IterNext
    \/ Drop
    \/ \E riseAt \in FaultRisePolls : \E fail \in FailPoints(ResetCalls(riseAt)) :
           SearchReset(riseAt, fail)
    \/ \E fail \in FailPoints(WriteCalls(1)) : SearchOpcode(fail)
    \/ \E fail \in FailPoints(SearchCalls(call.state.last_discrepancy_index)) :
           SearchReplay(fail)
    \/ \E fail \in FailPoints(SearchCalls(1)) : SearchSwitch(fail)
    \/ \E fail \in FailPoints(SearchCalls(AddressBits - local.bit_index)) :
           SearchDiscover(fail)
    \/ SearchFinish
    \/ /\ Between
       /\ \E riseAt \in FaultRisePolls : \E fail \in FailPoints(ResetCalls(riseAt)) :
              ResetCall(riseAt, fail)
    \/ \E command \in Commands, address \in Addresses :
           \E fail \in FailPoints(ResetCalls(0)
                                  + WriteCalls(IF address.some THEN 10 ELSE 2)) :
               Between /\ SendCommand(command, address, 0, fail)
    \/ \E high \in LineLevels(dev) : \E fail \in FailPoints(3) :
           ReadBitCall(high, fail)
    \/ \E value \in BOOLEAN : \E fail \in FailPoints(2) : WriteBitCall(value, fail)
    \/ \E sent \in LineBytes(dev) : \E fail \in FailPoints(ReadCalls(1)) :
           ReadByteCall(sent, fail)
    \/ \E sent \in LineBuffers(dev) : \E fail \in FailPoints(ReadCalls(Len(sent))) :
           ReadBytesCall(sent, fail)
    \/ \E value \in Bytes : \E fail \in FailPoints(WriteCalls(1)) :
           WriteByteCall(value, fail)
    \/ \E bytes \in Buffers : \E fail \in FailPoints(WriteCalls(Len(bytes))) :
           WriteBytesCall(bytes, fail)
    \/ \E address \in MatchAddresses : \E fail \in FailPoints(WriteCalls(9)) :
           MatchAddressCall(address, fail)
    \/ \E fail \in FailPoints(WriteCalls(1)) : SkipAddressCall(fail)

SpecFault == InitFault /\ [][NextFault]_vars

(***************************************************************************)
(* Scans of devices whose addresses fork at two positions above bit 0, the *)
(* upper fork inside the 0 branch of the lower one: a resuming pass then   *)
(* carries the lower discrepancy through its replay loop.                  *)
(***************************************************************************)
ForkDevices ==
    { ValidAddress(<<40, 1, 0, 0, 0, 0, 0>>),
      ValidAddress(<<40, 2, 0, 0, 0, 0, 0>>),
      ValidAddress(<<40, 4, 0, 0, 0, 0, 0>>) }

InitForks == InitOn(SUBSET ForkDevices, FALSE)

NextForks ==
    \/ \E resume \in BOOLEAN, only_alarming \in BOOLEAN :
           DeviceSearchCall(resume, only_alarming)
    \/ \E only_alarming \in BOOLEAN : devices(only_alarming)
    \/ IterNext
    \/ Drop
    \/ \E riseAt \in FaultRisePolls : SearchReset(riseAt, 0)
    \/ SearchOpcode(0)
    \/ SearchReplay(0)
    \/ SearchSwitch(0)
    \/ SearchDiscover(0)
    \/ SearchFinish
    \/ \E d \in ForkDevices : ChangeBus(d)
    \/ Disconnect

SpecForks == InitForks /\ [][NextForks]_vars


(***************************************************************************)
(* Properties of the scans, under Spec.                                    *)
(***************************************************************************)
SearchOps == {"device_search", "next"}

\* the devices that answer the scan in progress
Population == Responders(scan.only_alarming)

Yielded == {scan.yielded[k] : k \in 1 .. Len(scan.yielded)}

\* a scan from no prior state over a population of valid addresses that has
\* not changed, none of whose passes has failed
StableScan ==
    /\ pc = "idle"
    /\ scan.active
    /\ scan.stable
    /\ ~scan.failed
    /\ ret.op \in SearchOps
    /\ Population # {}
    /\ Population \subseteq ValidDevices

\* C1: over an unchanged population of N >= 1 valid addresses a scan yields
\* only addresses of the population and none twice, and the pass that returns
\* nothing comes when all N have been yielded: N passes succeed, then one
\* returns nothing
C1_FullScan ==
    StableScan =>
        /\ Yielded \subseteq Population
        /\ Cardinality(Yielded) = Len(scan.yielded)
        /\ ret.kind = "None" => Yielded = Population
        /\ ret.kind \in {"Some", "None"}

C1_Witness ==
    /\ StableScan
    /\ ret.kind = "None"
    /\ Len(scan.yielded) = 3
    /\ Yielded = ValidDevices

\* the order of the 64-bit values
AscendingNumeric ==
    \A k \in 2 .. Len(scan.yielded) : U64Less(scan.yielded[k - 1], scan.yielded[k])

\* C2 as stated: over a stable population every address yielded is
\* numerically greater than the one yielded by the preceding pass
C2_AscendingNumeric == StableScan => AscendingNumeric

\* a precedes b when, at the lowest bit position where they differ, a has 0
LsbFirstLess(a, b) ==
    /\ a # b
    /\ LET D == (a \ b) \cup (b \ a)
       IN  \A i \in D : (\A j \in D : i <= j) => i \in b

\* C2 amended: over a stable population the addresses come in the order of
\* their bits read from the least-significant one: each address has a 1 where
\* it first differs from the address of the preceding pass
C2_AscendingLsbFirst ==
    StableScan =>
        \A k \in 2 .. Len(scan.yielded) :
            LsbFirstLess(scan.yielded[k - 1], scan.yielded[k])

C2_Witness ==
    /\ StableScan
    /\ Len(scan.yielded) = 3
    /\ ~AscendingNumeric

Exhausted(st) == st.some /\ st.discrepancies = {}

\* C3: device_search called with a state whose discrepancy mask is zero
\* returns nothing at once: no slot, no pin call, no delay, the pin and the
\* devices as they were, whatever the population
C3_ExhaustedState ==
    [][(call'.op \in SearchOps /\ Exhausted(call'.state)) =>
           /\ pc' = "idle"
           /\ ret'.kind = "None"
           /\ slots' = <<>>
           /\ ev' = <<>>
           /\ pin' = pin
           /\ dev' = dev]_vars

C3_Witness ==
    /\ call.op = "device_search"
    /\ Exhausted(call.state)
    /\ bus # {}
    /\ ret.kind = "None"
    /\ slots = <<>>

\* C4: the pass of an iterator that fails or returns nothing leaves it
\* finished; a finished iterator stays finished, and every later next returns
\* no item without a slot, a pin call or a delay
C4_Finished ==
    [][/\ (iter'.some /\ pc' = "idle" /\ ret'.op = "next"
              /\ ret'.kind \in Errors \cup {"None"}) => iter'.finished
       /\ (iter.some /\ iter.finished /\ iter'.some) =>
              /\ iter' = iter
              /\ pc' = "idle"
              /\ ret'.op = "next"
              /\ ret'.kind = "None"
              /\ slots' = <<>>
              /\ ev' = <<>>
              /\ pin' = pin
              /\ dev' = dev]_vars

C4_Witness ==
    /\ iter.some
    /\ iter.finished
    /\ scan.failed
    /\ ret.op = "next"
    /\ ret.kind = "None"


\* the devices that have agreed with the address of the state below bit i and
\* have the bit b there: a branch of the fork at i
Branch(pop, st, i, b) ==
    {d \in pop : /\ \A j \in 0 .. i - 1 : TestBit(d, j) = TestBit(st.address, j)
                 /\ TestBit(d, i) = b}

\* the devices that answered the pass that returned the state and do not
\* answer the pass resumed from it
Removed == call.prevPop \ call.pop

SoleOccupant(i) ==
    \E b \in BOOLEAN : Branch(call.prevPop, call.state, i, b) = Removed

\* a pass resumed from a state has returned, after one device was removed
\* and none added, other devices remaining; its reset found the line high
ResumedAfterRemoval ==
    /\ pc = "idle"
    /\ call.op \in SearchOps
    /\ ret.op = call.op
    /\ call.state.some
    /\ slots # <<>>
    /\ Cardinality(Removed) = 1
    /\ call.pop \subseteq call.prevPop
    /\ call.pop # {}

\* C5 as stated: the resuming pass fails with UnexpectedResponse when the
\* device removed was the sole occupant of a branch of any fork recorded in
\* the discrepancy mask
C5_AnyFork ==
    (ResumedAfterRemoval /\ \E i \in call.state.discrepancies : SoleOccupant(i))
        => ret.kind = "UnexpectedResponse"

\* C5 amended: the resuming pass fails with UnexpectedResponse when the
\* device removed was the sole occupant of a branch of the recorded fork at
\* last_discrepancy_index, the one the pass switches
C5_LastFork ==
    (/\ ResumedAfterRemoval
     /\ call.state.last_discrepancy_index \in call.state.discrepancies
     /\ SoleOccupant(call.state.last_discrepancy_index))
        => ret.kind = "UnexpectedResponse"

C5_Witness ==
    /\ ResumedAfterRemoval
    /\ call.state.last_discrepancy_index \in call.state.discrepancies
    /\ SoleOccupant(call.state.last_discrepancy_index)
    /\ Cardinality(call.state.discrepancies) = 2
    /\ ret.kind = "UnexpectedResponse"

\* the calls of a wait_for_high that never reads the line high
OnlyPolls ==
    /\ Len(ev) = 2 * WAIT_POLLS
    /\ \A k \in 1 .. Len(ev) : ev[k] = IF k % 2 = 1 THEN IsHigh(FALSE) ELSE Delay(2)

NeverHigh ==
    /\ ev # <<>>
    /\ \A k \in 1 .. Len(ev) : ev[k].op = "is_high" => ev[k].arg = 0

\* C6: a reset whose polls never read the line high returns BusNotHigh, and
\* an operation that returns BusNotHigh has polled the line 125 times with a
\* delay of 2 microseconds after each poll, 250 in all, and has made no other
\* call: no set_low, no set_high, no is_low
C6_BusNotHigh ==
    /\ (ret.op = "reset" /\ NeverHigh) => ret.kind = "BusNotHigh"
    /\ ret.kind = "BusNotHigh" =>
           /\ OnlyPolls
           /\ Cardinality({k \in 1 .. Len(ev) : ev[k].op = "is_high"}) = 125
           /\ 2 * Cardinality({k \in 1 .. Len(ev) : ev[k].op = "delay_us"}) = 250
           /\ slots = <<>>
           /\ pin = "released"

C6_Witness ==
    /\ ret.op = "reset"
    /\ ret.kind = "BusNotHigh"
    /\ NeverHigh
    /\ bus # {}

\* the slots of a pass that has exchanged all the bit positions: the reset,
\* the eight of the search command, and two reads and a write per position
FullPass == 1 + 8 + 3 * AddressBits

\* the bits the pass has written, which are the address it has collected
Collected == {i \in BitIndex : slots[1 + 8 + 3 * i + 3].bit = 1}

Exchanged ==
    /\ Len(slots) = FullPass
    /\ \A i \in BitIndex :
           /\ slots[1 + 8 + 3 * i + 1].kind = "read"
           /\ slots[1 + 8 + 3 * i + 2].kind = "read"
           /\ slots[1 + 8 + 3 * i + 3].kind = "write"

\* C9: a pass that has collected 64 bits whose CRC-8 is not zero returns
\* CrcMismatch, with no address and no state; a pass returns CrcMismatch only
\* after all 64 bit positions have been exchanged
C9_CrcMismatch ==
    (pc = "idle" /\ ret.op \in SearchOps) =>
        /\ (Exchanged /\ crc8(to_le_bytes(Collected)) # 0)
               => ret.kind = "CrcMismatch"
        /\ ret.kind = "CrcMismatch" =>
               /\ Exchanged
               /\ crc8(to_le_bytes(Collected)) # 0
               /\ ret.address = {}
               /\ ret.state = NoState

C9_Witness ==
    /\ pc = "idle"
    /\ ret.op = "next"
    /\ ret.kind = "CrcMismatch"
    /\ Collected \in CorruptDevices

\* the bytes send_command is to write after the reset
CommandBytes ==
    (IF call.address.some THEN <<MATCH_ROM>> \o to_le_bytes(call.address.address)
                          ELSE <<SKIP_ROM>>)
    \o <<call.command>>

\* C10: send_command makes a reset, then writes MATCH_ROM and the eight bytes
\* of the address, or SKIP_ROM when no address is given, then the command
\* byte, each byte from its least-significant bit, whatever presence the
\* reset has sampled; only a reset that fails (BusNotHigh) leaves them
\* unwritten
C10_SendCommand ==
    ret.op = "send_command" =>
        /\ ret.kind \in {"Ok", "BusNotHigh"}
        /\ ret.kind = "BusNotHigh" => slots = <<>>
        /\ ret.kind = "Ok" =>
               /\ Len(slots) = 1 + 8 * Len(CommandBytes)
               /\ slots[1].kind = "reset"
               /\ \A j \in 1 .. Len(CommandBytes) : \A i \in 0 .. 7 :
                      slots[1 + 8 * (j - 1) + i + 1] =
                          [kind |-> "write", bit |-> BitOf(CommandBytes[j], i)]

C10_Witness ==
    /\ ret.op = "send_command"
    /\ ret.kind = "Ok"
    /\ call.address.some
    /\ slots[1] = [kind |-> "reset", bit |-> 0]
    /\ Len(slots) = 1 + 8 * 10


(***************************************************************************)
(* Properties of the checksum functions, under SpecCrc.                    *)
(***************************************************************************)
\* C7: for every block D, the empty one included, crc8(D ++ <<crc8(D)>>) is 0
\* and check_crc8 accepts the block followed by its own checksum
C7_RoundTrip ==
    (crc.sealed /\ crc.value # -1) => (crc.value = 0 /\ crc.check = "Ok")

C7_Witness ==
    /\ crc.sealed
    /\ Len(crc.data) > 2
    /\ crc.data[Len(crc.data)] # 0
    /\ crc.value = 0
    /\ crc.check = "Ok"

\* x^8 + x^5 + x^4 + 1, the polynomial whose reflected form is 0x8C: the
\* offsets of its terms from the leading one
Generator == {0, 3, 4, 8}

\* A polynomial over GF(2) is the set of the positions of its terms, counted
\* from the leading one.  The message: the bits of the block in the order
\* they are processed, each byte from its least-significant bit, followed by
\* eight zeros.
MessageBits(data) ==
    {k \in 1 .. 8 * Len(data) : BitOf(data[((k - 1) \div 8) + 1], (k - 1) % 8) = 1}

\* long division by the generator, from position i on, of a message of n bits
RECURSIVE PolyRem(_, _, _)
PolyRem(r, i, n) ==
    IF i > n THEN r
    ELSE LET g == {i + t : t \in Generator}
             next == IF i \in r THEN (r \ g) \cup (g \ r) ELSE r
         IN  IF next # {0} THEN PolyRem(next, i + 1, n) ELSE r

\* the remainder, read with the coefficient of x^7 as bit 0
RefCrc8(data) ==
    LET n == 8 * Len(data)
        r == PolyRem(MessageBits(data), 1, n)
        Term(k) == IF n + k \in r THEN Pow2(k - 1) ELSE 0
    IN  Term(1) + Term(2) + Term(3) + Term(4) + Term(5) + Term(6) + Term(7) + Term(8)

RECURSIVE KnownCrc(_)
\* the values the test of crc.rs expects
KnownCrc(data) ==
    IF data = <<99, 1, 75, 70, 127, 255, 13, 16>> THEN 21
    ELSE IF data = <<97, 1, 75, 70, 127, 255, 15, 16>> THEN 2
    ELSE IF data = <<95, 1, 75, 70, 127, 255, 1, 16>> THEN 155
    ELSE IF Len(data) = 9 /\ SubSeq(data, 1, 8) \in TestVectors
                          /\ data[9] = KnownCrc(SubSeq(data, 1, 8)) THEN 0
    ELSE -1

\* C8: crc8 is the remainder of the bit-serial division by the polynomial
\* 0x8C (reflected) from the initial value 0, least-significant bit first;
\* the vectors of the test give 21, 2 and 155, and 0 with the checksum appended
C8_Reference ==
    crc.value # -1 =>
        /\ crc.value = RefCrc8(crc.data)
        /\ KnownCrc(crc.data) # -1 => crc.value = KnownCrc(crc.data)

C8_Witness ==
    /\ crc.data = <<95, 1, 75, 70, 127, 255, 1, 16>>
    /\ crc.value = 155

(***************************************************************************)
(* The slots log of a pass: one reset, the eight writes of the opcode,     *)
(* then for bit position k two reads and one write.                        *)
(***************************************************************************)
OpcodeSlots == 1 + 8

\* the positions whose two reads have completed, and those whose write has
Positions == {k \in BitIndex : Len(slots) >= OpcodeSlots + 3 * k + 2}

Written(k) == Len(slots) >= OpcodeSlots + 3 * k + 3

\* a device asserts its bit (n = 1) or the complement (n = 2) by pulling the
\* line low in the read slot
Asserted(k, n) == slots[OpcodeSlots + 3 * k + n].bit = 0

Resuming == call.state.some

PassReturned ==
    /\ pc = "idle"
    /\ ret.op \in SearchOps
    /\ ret.kind \in {"Some", "UnexpectedResponse", "CrcMismatch"}

\* the responses the claim names as the causes of UnexpectedResponse
FailsAt(k) ==
    IF Resuming /\ k < call.state.last_discrepancy_index THEN FALSE
    ELSE IF Resuming /\ k = call.state.last_discrepancy_index
    THEN ~(Asserted(k, 1) /\ Asserted(k, 2))
    ELSE ~Asserted(k, 1) /\ ~Asserted(k, 2)

\* C12: device_search fails with UnexpectedResponse exactly when, resuming,
\* the two reads at the previous last_discrepancy_index do not both show an
\* asserting device, or when at a discovery position neither read shows an
\* asserting device; the pass ends at that position before its write, and no
\* response at a replayed position makes it fail
C12_UnexpectedResponse ==
    PassReturned =>
        /\ \A k \in Positions : FailsAt(k) <=> ~Written(k)
        /\ ret.kind = "UnexpectedResponse" <=> \E k \in Positions : ~Written(k)

\* a resuming pass that replays eight positions and fails at the ninth
C12_Witness ==
    /\ PassReturned
    /\ Resuming
    /\ call.state.last_discrepancy_index = 8
    /\ ret.kind = "UnexpectedResponse"
    /\ Positions = 0 .. 8
    /\ ~Written(8)

\* a pass that fails at a discovery position
C12_Discovery ==
    /\ PassReturned
    /\ ret.kind = "UnexpectedResponse"
    /\ \E k \in Positions : ~Written(k) /\ ~(Resuming /\ k = call.state.last_discrepancy_index)

\* a pass that succeeds though a replayed position answers otherwise than in
\* the previous pass
C12_Replay ==
    /\ PassReturned
    /\ Resuming
    /\ ret.kind = "Some"
    /\ \E k \in call.state.discrepancies :
           k < call.state.last_discrepancy_index /\ ~(Asserted(k, 1) /\ Asserted(k, 2))

\* the reset of the pass in progress or returned has sampled no presence
NoPresence ==
    /\ call.op \in SearchOps
    /\ slots # <<>>
    /\ slots[1] = [kind |-> "reset", bit |-> 0]

\* the pulse of a reset, after the wait for the idle line
ResetPulse(present) ==
    <<SetLow, Delay(480), Release, Delay(70), IsLow(~present), Delay(410)>>

LastEvents(events, n) == SubSeq(events, Len(events) - n + 1, Len(events))

\* C13: a pass whose reset samples no presence returns Ok(None) at once,
\* with no opcode and no bit slot: the reset is its only slot and the pulse
\* of the reset its last pin calls.  So does a resuming pass whose state has
\* a non-zero mask, and the iterator finishes as after a complete scan
C13_NoPresence ==
    NoPresence =>
        /\ pc = "idle"
        /\ ret.op = call.op
        /\ ret.kind = "None"
        /\ ret.address = {}
        /\ ret.state = NoState
        /\ Len(slots) = 1
        /\ Len(ev) >= 7
        /\ LastEvents(ev, 6) = ResetPulse(FALSE)
        /\ \A k \in 1 .. Len(ev) - 6 : ev[k].op \in {"is_high", "delay_us"}
        /\ call.op = "next" => iter.finished /\ iter.state = NoState

\* a resuming pass with a non-zero mask finds the bus empty
C13_Witness ==
    /\ NoPresence
    /\ pc = "idle"
    /\ call.op = "device_search"
    /\ call.state.some
    /\ call.state.discrepancies # {}
    /\ ret.kind = "None"

\* the iterator, resuming with a non-zero mask, finds the bus empty
C13_Iterator ==
    /\ NoPresence
    /\ call.op = "next"
    /\ call.state.some
    /\ call.state.discrepancies # {}
    /\ iter.finished

\* the opcode a pass sends
SearchOpcodeOf(only_alarming) == IF only_alarming THEN SEARCH_ALARM ELSE SEARCH_NORMAL

\* the kind of the n-th slot after the opcode: two reads, then one write
PositionKind(n) == IF n % 3 = 0 THEN "write" ELSE "read"

\* C14: the slots of a pass keep lock-step with the devices: exactly one
\* reset, the first slot; after a presence the eight bits of exactly one
\* search opcode, SEARCH_ALARM when only_alarming and SEARCH_NORMAL
\* otherwise, least-significant bit first; then, position after position in
\* ascending order, two reads and one write, in the replayed positions and at
\* the switched one as in the discovered ones; a pass that returns an address
\* has run all 64 positions, 192 slots after the opcode, and has written bit
\* i of the address in position i
C14_LockStep ==
    (call.op \in SearchOps /\ slots # <<>>) =>
        /\ slots[1].kind = "reset"
        /\ \A k \in 2 .. Len(slots) : slots[k].kind # "reset"
        /\ Len(slots) > 1 => slots[1].bit = 1 /\ Len(slots) >= OpcodeSlots
        /\ \A j \in 1 .. 8 :
               Len(slots) > j =>
                   slots[1 + j] = [kind |-> "write",
                                   bit |-> BitOf(SearchOpcodeOf(call.only_alarming), j - 1)]
        /\ \A k \in OpcodeSlots + 1 .. Len(slots) :
               slots[k].kind = PositionKind(k - OpcodeSlots)
        /\ Len(slots) <= OpcodeSlots + 3 * AddressBits
        /\ (pc = "idle" /\ ret.kind = "Some") =>
               /\ Len(slots) = OpcodeSlots + 192
               /\ \A i \in BitIndex :
                      slots[OpcodeSlots + 3 * i + 3].bit = 1 <=> i \in ret.address

\* a resuming pass of an alarm search has returned an address
C14_Witness ==
    /\ pc = "idle"
    /\ call.op \in SearchOps
    /\ call.only_alarming
    /\ call.state.some
    /\ ret.kind = "Some"
    /\ Len(slots) = OpcodeSlots + 192

\* a resuming pass has replayed positions, switched one and returned an address
C14_Replayed ==
    /\ pc = "idle"
    /\ call.op \in SearchOps
    /\ call.state.some
    /\ call.state.last_discrepancy_index > 0
    /\ ret.kind = "Some"

(***************************************************************************)
(* The bit slots in the events of a step.                                  *)
(***************************************************************************)
\* the microseconds of delay requested by the events lo .. hi
RECURSIVE Micros(_, _, _)
Micros(events, lo, hi) ==
    IF lo > hi THEN 0
    ELSE IF lo = hi
    THEN IF events[lo].op = "delay_us" THEN events[lo].arg ELSE 0
    ELSE Micros(events, lo, (lo + hi) \div 2) + Micros(events, (lo + hi) \div 2 + 1, hi)

\* a bit slot starts where the line is driven low, a reset pulse excepted
SlotStarts ==
    {k \in 1 .. Len(ev) - 1 : ev[k] = SetLow /\ ev[k + 1] # Delay(480)}

\* the events k .. n hold no start of a later slot and n is the last such
SlotEndsAt(k, n) == n = Len(ev) \/ (n < Len(ev) /\ ev[n + 1] = SetLow)

\* the slot that starts at k ends before the next one starts; the longest
\* shape of a slot has six events
SlotEnd(k) ==
    IF \E n \in k .. k + 5 : SlotEndsAt(k, n)
    THEN CHOOSE n \in k .. k + 5 :
             SlotEndsAt(k, n) /\ \A o \in k .. n - 1 : ~SlotEndsAt(k, o)
    ELSE Len(ev)

ReadShape(high) == <<SetLow, Delay(6), Release, Delay(9), IsHigh(high), Delay(55)>>

WriteShape(bit) ==
    IF bit = 1 THEN <<SetLow, Delay(6), Release, Delay(64)>>
    ELSE <<SetLow, Delay(60), Release, Delay(10)>>

Returned(op) == pc = "idle" /\ ret.op = op /\ ret.kind = "Ok"

\* C15: every bit slot requests 70 microseconds of delay in all and is one
\* of: low 6, release, 9, sample, 55 (read_bit, which returns true exactly
\* when the sample reads high); low 6, release, 64 (write of 1); low 60,
\* release, 10 (write of 0).  write_byte and read_byte are eight slots, 560
\* microseconds, least-significant bit first
C15_SlotTiming ==
    /\ \A k \in SlotStarts :
           /\ SubSeq(ev, k, SlotEnd(k))
                  \in {ReadShape(TRUE), ReadShape(FALSE), WriteShape(1), WriteShape(0)}
           /\ Micros(ev, k, SlotEnd(k)) = READ_SLOT_DURATION_MICROS
    /\ Returned("read_bit") =>
           /\ slots = <<[kind |-> "read", bit |-> ret.value]>>
           /\ ev = ReadShape(ret.value = 1)
    /\ Returned("write_bit") =>
           /\ slots = <<[kind |-> "write", bit |-> call.command]>>
           /\ ev = WriteShape(call.command)
    /\ Returned("write_byte") =>
           /\ Len(slots) = 8
           /\ Len(ev) = 8 * 4
           /\ Micros(ev, 1, Len(ev)) = 560
           /\ \A j \in 1 .. 8 :
                  /\ slots[j] = [kind |-> "write", bit |-> BitOf(call.command, j - 1)]
                  /\ SubSeq(ev, 4 * j - 3, 4 * j) = WriteShape(BitOf(call.command, j - 1))
    /\ Returned("read_byte") =>
           /\ Len(slots) = 8
           /\ Len(ev) = 8 * 6
           /\ Micros(ev, 1, Len(ev)) = 560
           /\ \A j \in 1 .. 8 :
                  /\ slots[j] = [kind |-> "read", bit |-> BitOf(ret.value, j - 1)]
                  /\ SubSeq(ev, 6 * j - 5, 6 * j) = ReadShape(BitOf(ret.value, j - 1) = 1)

\* read_byte has returned a byte with bits of both values
C15_Witness ==
    /\ Returned("read_byte")
    /\ ret.value = 165
    /\ Cardinality(SlotStarts) = 8

C15_WriteByte ==
    /\ Returned("write_byte")
    /\ call.command = 68
    /\ Cardinality(SlotStarts) = 8

\* a pass has run the slots of its discovery loop
C15_Pass ==
    /\ pc = "crc"
    /\ Cardinality(SlotStarts) = 3 * AddressBits

\* the events of a wait_for_high of n polls of which the last reads high
PollsUntilHigh(events, n) ==
    /\ n >= 1
    /\ \A k \in 1 .. 2 * n - 1 :
           events[k] = IF k % 2 = 0 THEN Delay(2) ELSE IsHigh(k = 2 * n - 1)

\* the events are those of a reset that has found the line high and has
\* sampled the presence given
ResetEvents(events, present) ==
    /\ Len(events) >= 7
    /\ (Len(events) - 6) % 2 = 1
    /\ PollsUntilHigh(events, (Len(events) - 6 + 1) \div 2)
    /\ LastEvents(events, 6) = ResetPulse(present)

\* C16: a reset that finds the line high at some poll then drives the line
\* low, delays 480, releases, delays 70, samples the line once and delays
\* 410, in this order and with nothing else; it returns true exactly when
\* the sample reads low
C16_ResetPulse ==
    /\ Returned("reset") =>
           /\ ResetEvents(ev, ret.value = 1)
           /\ slots = <<[kind |-> "reset", bit |-> ret.value]>>
    /\ (call.op \in SearchOps /\ pc = "opcode") =>
           /\ ResetEvents(ev, TRUE)
           /\ slots = <<[kind |-> "reset", bit |-> 1]>>

\* a reset has found the line high at its second poll and has sampled a
\* presence pulse
C16_Witness ==
    /\ Returned("reset")
    /\ ret.value = 1
    /\ Len(ev) = 3 + 6

\* a reset has found the line high at its last poll and no presence pulse
C16_Absent ==
    /\ Returned("reset")
    /\ ret.value = 0
    /\ Len(ev) = 2 * WAIT_POLLS - 1 + 6

\* the invariant of a search state
WellFormed(st) ==
    /\ st.discrepancies # {} => st.last_discrepancy_index = MaxOf(st.discrepancies)
    /\ st.discrepancies = {} => st.last_discrepancy_index = 0
    /\ st.address \cap st.discrepancies = {}

\* C17: every SearchState that device_search returns, after any sequence of
\* passes that starts with no state and threads the returned states, also
\* when the population changes between passes: (a) last_discrepancy_index
\* is the highest set bit of a non-zero discrepancy mask, and 0 when the
\* mask is zero; (b) the address has a 0 at every bit set in the mask; (c)
\* the address of the state is the address the pass returns
C17_StateInvariant ==
    /\ (pc = "idle" /\ ret.kind = "Some") =>
           /\ ret.state.some
           /\ WellFormed(ret.state)
           /\ ret.state.address = ret.address
    /\ held.some => WellFormed(held)
    /\ iter.state.some => WellFormed(iter.state)

\* a resuming pass, after a change of the population, returns a state whose
\* mask holds a discrepancy above bit 0 that it has carried through its
\* replay loop
C17_Witness ==
    /\ pc = "idle"
    /\ ret.kind = "Some"
    /\ call.state.some
    /\ ~scan.stable
    /\ ret.state.discrepancies # {}
    /\ ret.state.last_discrepancy_index > 0
    /\ ret.state.last_discrepancy_index < call.state.last_discrepancy_index

\* a resuming pass returns a state with a zero mask
C17_ZeroMask ==
    /\ pc = "idle"
    /\ ret.kind = "Some"
    /\ call.state.some
    /\ ret.state.discrepancies = {}

\* the devices that have joined the population since the previous pass
Added == call.pop \ call.prevPop

\* C18: an address that device_search returns is the address of a device
\* that is on the bus and answers the search (alarming, when only_alarming)
\* during the pass (call.pop, the responders when the pass starts; the
\* population does not change within a pass), whatever state earlier passes
\* have produced and whatever devices have been added or removed between
\* the passes
C18_NoPhantom ==
    (pc = "idle" /\ ret.op \in SearchOps /\ ret.kind = "Some") =>
        /\ ret.address \in call.pop
        /\ call.only_alarming => ret.address \in alarm

\* a resuming pass returns an address after the device of the previous pass
\* has been removed
C18_Witness ==
    /\ pc = "idle"
    /\ ret.op \in SearchOps
    /\ ret.kind = "Some"
    /\ call.state.some
    /\ call.state.address \in Removed
    /\ ret.address \in call.pop

\* a resuming pass returns an address after a device has been added
C18_Added ==
    /\ pc = "idle"
    /\ ret.op \in SearchOps
    /\ ret.kind = "Some"
    /\ call.state.some
    /\ Added # {}

\* the place of a in the population ordered by the bits of the addresses
\* read from the least-significant one
Rank(a, pop) == 1 + Cardinality({b \in pop : LsbFirstLess(b, a)})

\* C19: the order of a scan is a function of the population alone, and it is
\* the order of the address bits read from the least-significant one: over a
\* stable population the k-th address a scan from no prior state yields is
\* the k-th of the population in that order, so that two scans yield the same
\* sequence, and of two devices the one with a 0 at the lowest bit where
\* they differ is yielded before the other
C19_Deterministic ==
    StableScan =>
        /\ \A k \in 1 .. Len(scan.yielded) : Rank(scan.yielded[k], Population) = k
        /\ \A a \in Yielded, b \in Population :
               LsbFirstLess(a, b) \/ a = b \/ b \in Yielded

\* a scan of three devices has yielded them all, the first of them the one
\* with a 0 at bits 0 and 8
C19_Witness ==
    /\ StableScan
    /\ Len(scan.yielded) = 3
    /\ Population = ValidDevices
    /\ ret.kind = "Some"
    /\ \A b \in Population \ {scan.yielded[1]} : LsbFirstLess(scan.yielded[1], b)

(***************************************************************************)
(* Failing pin calls (SpecFault).                                          *)
(***************************************************************************)
\* the events of the last step that are calls that have failed
Failures == {k \in 1 .. Len(ev) : ~ev[k].ok}

PinErrorIn(op) == pc = "idle" /\ ret.op = op /\ ret.kind = "PinError"

\* C11: a pin call that fails inside an operation ends it: the failing call
\* is the last event of the operation, no pin call and no delay follows it,
\* and the operation returns PinError; an operation returns PinError only so.
\* device_search then returns neither address nor state.  The iterator
\* yields the PinError once: it is finished, and its next call returns
\* nothing without touching the pin
C11_PinError ==
    [][/\ Failures' # {} =>
              /\ Failures' = {Len(ev')}
              /\ ev'[Len(ev')].op \in {"set_low", "set_high", "is_high", "is_low"}
              /\ pc' = "idle"
              /\ ret'.op = call'.op
              /\ ret'.kind = "PinError"
       /\ ret'.kind = "PinError" =>
              /\ Failures' # {}
              /\ ret'.address = {}
              /\ ret'.state = NoState
              /\ ret'.bytes = <<>>
              /\ ret'.op = "next" => iter'.finished /\ iter'.state = NoState
       /\ (PinErrorIn("next") /\ iter'.some) =>
              /\ ret'.op = "next"
              /\ ret'.kind = "None"
              /\ ev' = <<>>
              /\ slots' = <<>>
              /\ pin' = pin
              /\ iter' = iter]_vars

\* the iterator has yielded the PinError of an is_high call that failed in
\* the last position of the discovery loop
C11_Witness ==
    /\ PinErrorIn("next")
    /\ iter.finished
    /\ Len(slots) = OpcodeSlots + 3 * (AddressBits - 1) + 1
    /\ ev[Len(ev)].op = "is_high"
    /\ ~ev[Len(ev)].ok

\* the output calls of the last step that have succeeded
Outputs == {k \in 1 .. Len(ev) : ev[k].op \in {"set_low", "set_high"} /\ ev[k].ok}

\* a release of the last step has failed
ReleaseFailed == \E k \in Failures : ev[k].op = "set_high"

\* C20: the master does not hold the line low between operations: the pin
\* is released after OneWire::new, and every step of every operation that
\* starts with the pin released and in which no release fails ends with
\* the pin released, whether the operation goes on, returns success or
\* returns BusNotHigh, UnexpectedResponse, CrcMismatch or the PinError of a
\* set_low or of a sample; when the step has driven the line low, its last
\* output call is a release
C20_BusIdle ==
    /\ pin = "released"
    /\ [][(pin = "released" /\ ~ReleaseFailed') =>
              /\ pin' = "released"
              /\ Outputs' # {} => ev'[MaxOf(Outputs')].op = "set_high"]_vars

\* send_command has returned the PinError of a set_low that failed after the
\* reset and some bit slots, and the pin is released
C20_Witness ==
    /\ PinErrorIn("send_command")
    /\ ev[Len(ev)].op = "set_low"
    /\ Len(slots) > 1
    /\ Outputs # {}
    /\ pin = "released"

\* a release has failed and the operation has returned with the line low
C20_HeldLow ==
    /\ pc = "idle"
    /\ ret.kind = "PinError"
    /\ ReleaseFailed
    /\ pin = "low"
====
